---- MODULE Spec2Model ----
(***************************************************************************)
(* A model of src/main.py, the Streamlit finance tracker.                  *)
(*                                                                         *)
(* Every user interaction re-runs the script top to bottom: the store      *)
(* initialisation (lines 17-19), then one branch of the menu dispatch      *)
(* (lines 155-189).  The state is what survives a run (the store file      *)
(* finance_data.csv and the two chart image files) and what the run        *)
(* showed (out).                                                           *)
(*                                                                         *)
(* Encodings.  A CSV file is a sequence of lines, a line a sequence of     *)
(* field texts (the csv quoting of to_csv / read_csv is the tokenisation   *)
(* itself).  A parsed cell is a record [k, s, n]: k is "nan" (NaN / NaT),  *)
(* "str" (object, text in s), "num" (float64, value in n, in hundredths)   *)
(* or "date" (datetime64, n = days since 1970-01-01).  Text <-> value      *)
(* conversions are finite lexicons over the field texts of the model.      *)
(***************************************************************************)
EXTENDS Integers, Sequences, FiniteSets, TLC

VARIABLES pc, store, images, before, out

vars == <<pc, store, images, before, out>>

\* ------------------------------------------------------------------ bounds

\* Most data lines the store is let to grow to.
MaxRows == 2
\* Most data lines of a store file found on disk at the first run.
MaxInitRows == 1
\* Most data rows of an uploaded file.
MaxUploadRows == 1

\* ------------------------------------------------------------------- cells

NaN == [k |-> "nan", s |-> "", n |-> 0]
Str(t) == [k |-> "str", s |-> t, n |-> 0]
Num(x) == [k |-> "num", s |-> "", n |-> x]
Date(d) == [k |-> "date", s |-> "", n |-> d]

\* pandas' default na_values of read_csv (those among the model's texts).
NAValues == {"", "NA", "N/A", "null", "NaN", "nan", "None", "NULL", "n/a"}

\* Texts that parse as a number, with the value in hundredths.
NumLex ==
    [t \in {"1000.0", "0.01", "-50", "0", "007"} |->
        CASE t = "1000.0" -> 100000
          [] t = "0.01" -> 1
          [] t = "-50" -> -5000
          [] t = "0" -> 0
          [] t = "007" -> 700]

\* Texts that parse as a calendar date, with the day number since 1970-01-01.
DateLex ==
    [t \in {"2024-01-01", "2024-02-01"} |->
        CASE t = "2024-01-01" -> 19723
          [] t = "2024-02-01" -> 19754]

\* str(datetime.date): what to_csv writes for the form's date.
FormatDate(d) == CHOOSE t \in DOMAIN DateLex : DateLex[t] = d

\* repr(float): what to_csv writes for the form's amount.
FormatAmount(a) ==
    CASE a = 100000 -> "1000.0"
      [] a = 1 -> "0.01"

\* str.lower() of a column name.
Lower(name) ==
    CASE name \in {"Date", "DATE", "date"} -> "date"
      [] name \in {"Amount", "AMOUNT", "amount"} -> "amount"
      [] name \in {"Type", "TYPE", "type"} -> "type"
      [] name \in {"Category", "CATEGORY", "category"} -> "category"
      [] name \in {"Description", "DESCRIPTION", "description"} -> "description"
      [] OTHER -> name

\* ------------------------------------------------------------------ tables

CanonicalColumns == <<"Date", "Type", "Category", "Description", "Amount">>

HasCol(cols, name) == \E j \in 1..Len(cols) : cols[j] = name

ColIndex(cols, name) == CHOOSE j \in 1..Len(cols) : cols[j] = name

\* pd.DataFrame(columns=[...]): no rows.
EmptyTable == [cols |-> CanonicalColumns, rows |-> <<>>]

\* DataFrame.empty: an axis of length 0.
IsEmpty(t) == Len(t.cols) = 0 \/ Len(t.rows) = 0

Cell(t, i, name) == t.rows[i][ColIndex(t.cols, name)]

\* The field texts of column j of the data lines.
ColumnTexts(lines, j) == {lines[i][j] : i \in 2..Len(lines)}

AllNumeric(texts) == \A t \in texts : t \in NAValues \/ t \in DOMAIN NumLex

AllDates(texts) == \A t \in texts : t \in NAValues \/ t \in DOMAIN DateLex

\* read_csv's type inference of one field of a column whose texts are `texts`;
\* a column named in parse_dates becomes datetime64 when every value parses
\* and is returned unaltered (object) otherwise.
ParseField(t, texts, asDate) ==
    IF t \in NAValues THEN NaN
    ELSE IF asDate /\ AllDates(texts) THEN Date(DateLex[t])
    ELSE IF AllNumeric(texts) THEN Num(NumLex[t])
    ELSE Str(t)

\* pd.read_csv(lines, parse_dates=dateCols) of a file with a header line.
ReadCsv(lines, dateCols) ==
    LET cols == lines[1] IN
    [cols |-> cols,
     rows |-> [i \in 1..(Len(lines) - 1) |->
                 [j \in 1..Len(cols) |->
                     ParseField(lines[i + 1][j], ColumnTexts(lines, j),
                                cols[j] \in dateCols)]]]

\* pd.to_numeric(x, errors="coerce") of one cell.
ToNumeric(c) ==
    CASE c.k = "num" -> c
      [] c.k = "str" -> IF c.s \in DOMAIN NumLex THEN Num(NumLex[c.s]) ELSE NaN
      [] OTHER -> NaN

\* pd.to_datetime(x, errors="coerce") of one cell (a number is nanoseconds
\* since the epoch: day 0 for the model's numbers).
ToDatetime(c) ==
    CASE c.k = "date" -> c
      [] c.k = "str" -> IF c.s \in DOMAIN DateLex THEN Date(DateLex[c.s]) ELSE NaN
      [] c.k = "num" -> Date(0)
      [] OTHER -> NaN

\* df[name] = pd.to_numeric(df[name], errors="coerce").
NumericColumn(t, name) ==
    [cols |-> t.cols,
     rows |-> [i \in 1..Len(t.rows) |->
                 [j \in 1..Len(t.cols) |->
                     IF t.cols[j] = name THEN ToNumeric(t.rows[i][j]) ELSE t.rows[i][j]]]]

\* df[name] = pd.to_datetime(df[name], errors="coerce").
DatetimeColumn(t, name) ==
    [cols |-> t.cols,
     rows |-> [i \in 1..Len(t.rows) |->
                 [j \in 1..Len(t.cols) |->
                     IF t.cols[j] = name THEN ToDatetime(t.rows[i][j]) ELSE t.rows[i][j]]]]

NoNaN(row, idx) == \A j \in idx : row[j].k # "nan"

\* df.dropna(): drops every row holding a NaN in ANY column.
DropNaAny(t) ==
    [cols |-> t.cols,
     rows |-> SelectSeq(t.rows, LAMBDA r : NoNaN(r, 1..Len(t.cols)))]

\* df.dropna(subset=names).
DropNaSubset(t, names) ==
    [cols |-> t.cols,
     rows |-> SelectSeq(t.rows,
                 LAMBDA r : NoNaN(r, {j \in 1..Len(t.cols) : t.cols[j] \in names}))]

\* df.rename(columns={old: new}).
Rename(t, old, new) ==
    [cols |-> [j \in 1..Len(t.cols) |-> IF t.cols[j] = old THEN new ELSE t.cols[j]],
     rows |-> t.rows]

\* df[name] = values (one value per row): replaces the column when it exists,
\* appends it otherwise.
SetColumn(t, name, values) ==
    IF HasCol(t.cols, name)
    THEN [cols |-> t.cols,
          rows |-> [i \in 1..Len(t.rows) |->
                      [j \in 1..Len(t.cols) |->
                          IF t.cols[j] = name THEN values[i] ELSE t.rows[i][j]]]]
    ELSE [cols |-> Append(t.cols, name),
          rows |-> [i \in 1..Len(t.rows) |-> Append(t.rows[i], values[i])]]

\* ------------------------------------------------------------------- store

\* The file a fresh pd.DataFrame(columns=[...]).to_csv(index=False) writes.
HeaderOnly == [exists |-> TRUE, lines |-> <<CanonicalColumns>>]

NoFile == [exists |-> FALSE, lines |-> <<>>]

InitializeAlways(file) == HeaderOnly

\* Lines 17-19: create the store with the header row when it does not exist.
Initialize(file) == IF ~file.exists THEN HeaderOnly ELSE file

\* Lines 24-25, the reads inside the try: err names the exception raised.
ReadStore(file) ==
    IF ~file.exists THEN [err |-> "FileNotFoundError", table |-> EmptyTable]
    ELSE IF Len(file.lines) = 0 THEN [err |-> "EmptyDataError", table |-> EmptyTable]
    ELSE IF ~HasCol(file.lines[1], "Date") THEN [err |-> "ValueError", table |-> EmptyTable]
    ELSE IF ~HasCol(file.lines[1], "Amount") THEN [err |-> "KeyError", table |-> EmptyTable]
    ELSE [err |-> "",
          table |-> NumericColumn(ReadCsv(file.lines, {"Date"}), "Amount")]

load_data_narrow(file) ==
    LET r == ReadStore(file) IN
    IF r.err = "FileNotFoundError" THEN [raised |-> "", table |-> EmptyTable]
    ELSE IF r.err # "" THEN [raised |-> r.err, table |-> EmptyTable]
    ELSE [raised |-> "", table |-> DropNaAny(r.table)]

\* Lines 22-28: the bare except turns every exception into the empty table.
load_data(file) ==
    LET r == ReadStore(file) IN
    IF r.err # "" THEN [raised |-> "", table |-> EmptyTable]
    ELSE [raised |-> "", table |-> DropNaAny(r.table)]

\* The line to_csv(header=False, index=False) writes for one form record.
FormLine(date, t_type, category, description, amount) ==
    <<FormatDate(date), t_type, category, description, FormatAmount(amount)>>

save_transaction_rewrite(file, date, t_type, category, description, amount) ==
    [exists |-> TRUE,
     lines |-> <<FormLine(date, t_type, category, description, amount)>>]

\* Lines 31-34: to_csv(mode='a') appends one line to the file.
save_transaction(file, date, t_type, category, description, amount) ==
    [exists |-> TRUE,
     lines |-> Append(file.lines, FormLine(date, t_type, category, description, amount))]

\* ----------------------------------------------------------------- reports

\* Lines 37-54: the figures plot_summary returns (fig1, fig2 as "is truthy");
\* the groupby raises KeyError when a grouped column is missing.
plot_summary(df) ==
    IF IsEmpty(df) THEN [raised |-> "", fig1 |-> FALSE, fig2 |-> FALSE]
    ELSE IF ~(HasCol(df.cols, "Date") /\ HasCol(df.cols, "Type") /\ HasCol(df.cols, "Amount"))
    THEN [raised |-> "KeyError", fig1 |-> FALSE, fig2 |-> FALSE]
    ELSE [raised |-> "", fig1 |-> TRUE,
          fig2 |-> /\ HasCol(df.cols, "Category")
                   /\ \E i \in 1..Len(df.rows) : Cell(df, i, "Category").k # "nan"]

TrendPlot == "trend_plot.png"
PieChart == "pie_chart.png"

\* Lines 76-79: row['Date'] ... row['Amount'] of every row.
RowLinesRaise(data) ==
    /\ Len(data.rows) > 0
    /\ \E j \in 1..Len(CanonicalColumns) : ~HasCol(data.cols, CanonicalColumns[j])

\* Lines 70-104.  `imgs` is the set of image files on disk, `fail` the step
\* the environment makes fail ("write1", "write2", "build") or "none".
get_pdf_download(data, imgs, fail) ==
    IF RowLinesRaise(data) THEN [raised |-> "KeyError", images |-> imgs, wrote |-> {}]
    ELSE
    LET ps == plot_summary(data)
        w1 == IF ps.fig1 THEN {TrendPlot} ELSE {}
        w2 == IF ps.fig2 THEN {PieChart} ELSE {}
    IN
    IF ps.raised # "" THEN [raised |-> ps.raised, images |-> imgs, wrote |-> {}]
    ELSE IF ps.fig1 /\ fail = "write1"
    THEN [raised |-> "write_image", images |-> imgs, wrote |-> {}]
    ELSE IF ps.fig2 /\ fail = "write2"
    THEN [raised |-> "write_image", images |-> imgs \cup w1, wrote |-> w1]
    ELSE IF fail = "build"
    THEN [raised |-> "build", images |-> imgs \cup w1 \cup w2, wrote |-> w1 \cup w2]
    ELSE [raised |-> "", images |-> imgs \ (w1 \cup w2), wrote |-> w1 \cup w2]

\* ------------------------------------------------------------------ upload

\* Line 110: df.columns = df.columns.str.lower().
LowerColumns(t) ==
    [cols |-> [j \in 1..Len(t.cols) |-> Lower(t.cols[j])], rows |-> t.rows]

MissingRequiredDateOnly(cols) == ~HasCol(cols, "date")

\* Line 112: not {'date', 'amount'}.issubset(df.columns).
MissingRequired(cols) == ~(HasCol(cols, "date") /\ HasCol(cols, "amount"))

\* Lines 116-120: coerce, drop the rows either coercion failed on, rename.
Coerce(t) ==
    LET c == NumericColumn(DatetimeColumn(t, "date"), "amount")
    IN Rename(Rename(DropNaSubset(c, {"date", "amount"}), "date", "Date"),
              "amount", "Amount")

\* The lambda of line 122.
TypeOf(x) == IF x.k = "num" /\ x.n >= 0 THEN Str("Income") ELSE Str("Expense")

DeriveTypeKeep(t) ==
    IF HasCol(t.cols, "type") THEN Rename(t, "type", "Type")
    ELSE SetColumn(t, "Type", [i \in 1..Len(t.rows) |-> TypeOf(Cell(t, i, "Amount"))])

\* Line 122: df["Type"] = df["Amount"].apply(...).
DeriveType(t) ==
    SetColumn(t, "Type", [i \in 1..Len(t.rows) |-> TypeOf(Cell(t, i, "Amount"))])

\* Lines 124-127.
NormalizeCategory(t) ==
    IF ~HasCol(t.cols, "category")
    THEN SetColumn(t, "Category", [i \in 1..Len(t.rows) |-> Str("Uncategorized")])
    ELSE Rename(t, "category", "Category")

\* Lines 129-130: a description column that is present keeps its lower-cased
\* name.
NormalizeDescription(t) ==
    IF ~HasCol(t.cols, "description")
    THEN SetColumn(t, "Description", [i \in 1..Len(t.rows) |-> Str("")])
    ELSE t

\* Lines 116-130.
Normalize(t) == NormalizeDescription(NormalizeCategory(DeriveType(Coerce(t))))

NoTable == [cols |-> <<>>, rows |-> <<>>]

\* What a run took and what it leaves for the user: the branch taken, the
\* form submitted or the file uploaded, the st.error / st.success messages,
\* the table shown, the steps run in order, the exception that ended the
\* script (View Summary has no try), and what get_pdf_download did.
NoForm == [date |-> 0, t_type |-> "", category |-> "", description |-> "", amount |-> 0]
NoUpload == [kind |-> "none", lines |-> <<>>]

NoOut ==
    [mode |-> "none", submit |-> FALSE, form |-> NoForm, upload |-> NoUpload,
     msgs |-> <<>>, hasTable |-> FALSE, table |-> NoTable, steps |-> <<>>,
     raised |-> "", pdf |-> "none", wrote |-> {}]

\* The message of line 113.
SchemaError == "error: Uploaded CSV must contain 'Date' and 'Amount' columns."

ReadSteps == <<"read_csv", "lower", "check">>
NormalizeSteps == <<"coerce", "rename", "derive_type", "category", "description">>
ShowSteps == <<"success", "dataframe", "plot_summary">>

\* Lines 137-144 and 176-183: the three download buttons, in order; `fail`
\* also lets the spreadsheet writer fail ("excel").
Exports(data, imgs, fail) ==
    IF fail = "excel"
    THEN [steps |-> <<"csv", "excel">>, raised |-> "excel", images |-> imgs,
          pdf |-> "none", wrote |-> {}]
    ELSE LET p == get_pdf_download(data, imgs, fail) IN
         [steps |-> <<"csv", "excel", "pdf">>, raised |-> p.raised, images |-> p.images,
          pdf |-> IF p.raised = "" THEN "returned" ELSE "raised", wrote |-> p.wrote]

\* Lines 107-147.  An upload is [kind, lines]; read_csv raises on a
\* spreadsheet's bytes and on an empty file, and the except of line 146 turns
\* every exception into an error message.
analyze_uploaded_file(u, imgs, fail) ==
    LET base == [NoOut EXCEPT !.mode = "Trend Analysis", !.upload = u] IN
    IF u.kind # "csv" \/ Len(u.lines) = 0
    THEN [out |-> [base EXCEPT !.msgs = <<"error: processing">>,
                               !.steps = <<"read_csv">>],
          images |-> imgs]
    ELSE
    LET df == LowerColumns(ReadCsv(u.lines, {})) IN
    IF MissingRequired(df.cols)
    THEN [out |-> [base EXCEPT !.msgs = <<SchemaError>>, !.steps = ReadSteps],
          images |-> imgs]
    ELSE IF ~(HasCol(df.cols, "date") /\ HasCol(df.cols, "amount"))
    THEN \* df["date"] / df["amount"] of lines 116-117 raise KeyError
         [out |-> [base EXCEPT !.msgs = <<"error: processing">>,
                               !.steps = ReadSteps \o <<"coerce">>],
          images |-> imgs]
    ELSE
    LET n == Normalize(df)
        ps == plot_summary(n)
        shown == [base EXCEPT !.hasTable = TRUE, !.table = n]
        ex == Exports(n, imgs, fail)
    IN
    IF ps.raised # ""
    THEN [out |-> [shown EXCEPT !.msgs = <<"success", "error: processing">>,
                                !.steps = ReadSteps \o NormalizeSteps \o ShowSteps],
          images |-> imgs]
    ELSE [out |-> [shown EXCEPT
                     !.msgs = IF ex.raised = "" THEN <<"success">>
                              ELSE <<"success", "error: processing">>,
                     !.steps = ReadSteps \o NormalizeSteps \o ShowSteps \o ex.steps,
                     !.pdf = ex.pdf, !.wrote = ex.wrote],
          images |-> ex.images]

\* Lines 169-183: the View Summary branch; an exception ends the script run.
view_summary(file, imgs, fail) ==
    LET base == [NoOut EXCEPT !.mode = "View Summary"]
        ld == load_data(file)
        data == ld.table
        ps == plot_summary(data)
        shown == [base EXCEPT !.hasTable = TRUE, !.table = data]
        ex == Exports(data, imgs, fail)
    IN
    IF ld.raised # ""
    THEN [out |-> [base EXCEPT !.steps = <<"load_data">>, !.raised = ld.raised],
          images |-> imgs]
    ELSE IF ps.raised # ""
    THEN [out |-> [shown EXCEPT !.steps = <<"load_data", "dataframe", "plot_summary">>,
                                !.raised = ps.raised],
          images |-> imgs]
    ELSE IF IsEmpty(data)
    THEN [out |-> [shown EXCEPT !.steps = <<"load_data", "dataframe", "plot_summary">>],
          images |-> imgs]
    ELSE [out |-> [shown EXCEPT
                     !.steps = <<"load_data", "dataframe", "plot_summary">> \o ex.steps,
                     !.raised = ex.raised, !.pdf = ex.pdf, !.wrote = ex.wrote],
          images |-> ex.images]

\* ------------------------------------------------------------------ inputs

SeqsUpTo(S, n) == UNION {[1..k -> S] : k \in 0..n}

\* The record-entry form (lines 158-162): a date, the type selectbox, two
\* free texts, and a number_input with min_value=0.01.
Forms ==
    [date : {19723}, t_type : {"Income", "Expense"},
     category : {"Salary", "", "007"}, description : {"Rent", ""},
     amount : {1, 100000}]

CoreForms == {f \in Forms : f.t_type = "Income" /\ f.category = "Salary" /\ f.amount = 100000}

\* Header lines a store file found on disk may have: the canonical one, and
\* one with another name in place of Date, of Amount, of Description.
Headers ==
    {CanonicalColumns,
     <<"When", "Type", "Category", "Description", "Amount">>,
     <<"Date", "Type", "Category", "Description", "Value">>,
     <<"Date", "Type", "Category", "Memo", "Amount">>}

\* Data lines such a file may hold.
FileLines ==
    {<<d, t, c, "Rent", a>> : d \in {"2024-01-01", "notadate"}, t \in {"Income", "Transfer"},
                              c \in {"Salary", ""}, a \in {"1000.0", "abc"}}

\* The store files on disk before the first run.
StoreFiles ==
    {NoFile, [exists |-> TRUE, lines |-> <<>>]}
    \cup {[exists |-> TRUE, lines |-> <<h>> \o rows] :
            h \in Headers, rows \in SeqsUpTo(FileLines, MaxInitRows)}

CoreStoreFiles == {NoFile, [exists |-> TRUE, lines |-> <<>>], HeaderOnly}

\* The lines of an upload whose columns are those of `names` that are not ""
\* (in the order date, amount, type, category, description).  An upload has
\* at most one column per lower-cased name, and every line of a file has as
\* many fields as its header.
Project(names, row) ==
    LET keep == SelectSeq(<<1, 2, 3, 4, 5>>, LAMBDA j : names[j] # "")
    IN [j \in 1..Len(keep) |-> row[keep[j]]]

UploadsOver(D, A, T, C, S, dates, amounts, cats) ==
    {[kind |-> "csv",
      lines |-> <<Project(names, names)>> \o [i \in 1..Len(rows) |-> Project(names, rows[i])]] :
        names \in {<<d, a, t, c, s>> : d \in D, a \in A, t \in T, c \in C, s \in S},
        rows \in SeqsUpTo({<<d, a, "Income", c, "Lunch">> : d \in dates, a \in amounts, c \in cats},
                          MaxUploadRows)}

\* What the file_uploader (line 187) may hand over.
Uploads ==
    {[kind |-> "xlsx", lines |-> <<>>], [kind |-> "csv", lines |-> <<>>]}
    \cup UploadsOver({"", "Date", "DATE"}, {"", "Amount", "amount"}, {"", "TYPE"},
                     {"", "Category", "category"}, {"", "Description", "description"},
                     {"2024-02-01", "notadate"}, {"-50", "0", "abc"}, {"Food", ""})

CoreUploads ==
    {[kind |-> "xlsx", lines |-> <<>>]}
    \cup UploadsOver({"", "Date"}, {"Amount"}, {""}, {"", "Category"}, {"", "Description"},
                     {"2024-02-01"}, {"-50"}, {"Food"})

\* Where the environment may make an export fail.
Failures == {"none", "excel", "write1", "write2", "build"}

\* ----------------------------------------------------------------- actions

\* The lines of a file that are not a header line.
DataLines(file) == Cardinality({i \in 1..Len(file.lines) : file.lines[i] \notin Headers})

\* Lines 17-19, at the top of every script run.
InitializeStore ==
    /\ pc = "start"
    /\ pc' = "dispatch"
    /\ before' = store
    /\ store' = Initialize(store)
    /\ out' = NoOut
    /\ UNCHANGED images

\* Lines 155-167.
RunAddTransaction(forms) ==
    /\ pc = "dispatch"
    /\ \E f \in forms, submit \in BOOLEAN :
         /\ submit => DataLines(store) < MaxRows
         /\ store' = IF submit
                     THEN save_transaction(store, f.date, f.t_type, f.category,
                                           f.description, f.amount)
                     ELSE store
         /\ out' = [NoOut EXCEPT !.mode = "Add Transaction", !.submit = submit,
                                 !.form = IF submit THEN f ELSE NoForm,
                                 !.msgs = IF submit THEN <<"success">> ELSE <<>>]
    /\ pc' = "start"
    /\ UNCHANGED <<images, before>>

\* Lines 169-183.
RunViewSummary(failures) ==
    /\ pc = "dispatch"
    /\ \E fail \in failures :
         LET r == view_summary(store, images, fail) IN
         /\ out' = r.out
         /\ images' = r.images
    /\ pc' = "start"
    /\ UNCHANGED <<store, before>>

\* Lines 185-189 (no file chosen: nothing runs).
RunTrendAnalysis(uploads) ==
    /\ pc = "dispatch"
    /\ \/ /\ out' = [NoOut EXCEPT !.mode = "Trend Analysis"]
          /\ UNCHANGED images
       \/ \E u \in uploads, fail \in Failures :
            LET r == analyze_uploaded_file(u, images, fail) IN
            /\ out' = r.out
            /\ images' = r.images
    /\ pc' = "start"
    /\ UNCHANGED <<store, before>>

\* ---------------------------------------------------------- specifications

InitWith(files) ==
    /\ pc = "start"
    /\ store \in files
    /\ images = {}
    /\ before = NoFile
    /\ out = NoOut

\* The whole script, from a fresh or freshly initialised store.
Init == InitWith(CoreStoreFiles)

Next ==
    \/ InitializeStore
    \/ RunAddTransaction(CoreForms)
    \/ RunViewSummary(Failures)
    \/ RunTrendAnalysis(CoreUploads)

Spec == Init /\ [][Next]_vars

\* The store operations over any store file found on disk, every export
\* succeeding.
InitStore == InitWith(StoreFiles)

NextStore ==
    \/ InitializeStore
    \/ RunAddTransaction(Forms)
    \/ RunViewSummary({"none"})

SpecStore == InitStore /\ [][NextStore]_vars

\* The upload analysis over every upload.
InitUpload == InitWith({NoFile})

NextUpload ==
    \/ InitializeStore
    \/ RunTrendAnalysis(Uploads)

SpecUpload == InitUpload /\ [][NextUpload]_vars

\* -------------------------------------------------------------- properties

\* A run of the given branch has just ended.
Ended(mode) == pc = "start" /\ out.mode = mode

IsPrefix(a, b) == Len(a) <= Len(b) /\ \A i \in 1..Len(a) : a[i] = b[i]

\* Row i of table t holds the form record f, value for value.
HoldsRecord(t, i, f) ==
    /\ \A j \in 1..5 : HasCol(t.cols, CanonicalColumns[j])
    /\ Cell(t, i, "Date") = Date(f.date)
    /\ Cell(t, i, "Type") = Str(f.t_type)
    /\ Cell(t, i, "Category") = Str(f.category)
    /\ Cell(t, i, "Description") = Str(f.description)
    /\ Cell(t, i, "Amount") = Num(f.amount)

SpecExample ==
    [date |-> 19723, t_type |-> "Income", category |-> "Salary", description |-> "",
     amount |-> 100000]

\* C1: a record the form produces, appended by save_transaction to an
\* initialised store (canonical header), is in the table load_data then
\* returns, with identical Date/Type/Category/Description/Amount; appended to
\* the header-only store, the spec's example is the one record returned.
C1_RoundTrip ==
    (/\ Ended("Add Transaction")
     /\ out.submit
     /\ Len(store.lines) >= 2
     /\ store.lines[1] = CanonicalColumns)
    => LET t == load_data(store).table IN
       /\ \E i \in 1..Len(t.rows) : HoldsRecord(t, i, out.form)
       /\ (Len(store.lines) = 2 /\ out.form = SpecExample) => Len(t.rows) = 1

\* The store file can be read: it exists and its header has Date and Amount.
Readable(file) ==
    /\ file.exists
    /\ Len(file.lines) >= 1
    /\ HasCol(file.lines[1], "Date")
    /\ HasCol(file.lines[1], "Amount")

\* The data lines of a readable file whose Amount field is a number.
NumericLines(file) ==
    {i \in 2..Len(file.lines) :
        file.lines[i][ColIndex(file.lines[1], "Amount")] \in DOMAIN NumLex}

\* C2: on a readable store, load_data returns exactly the rows whose Amount
\* coerces to a number, in file order: as many rows as there are data lines
\* with a numeric Amount, whatever their other fields hold.
C2_LoadKeepsNumericRows ==
    (Ended("View Summary") /\ Readable(store))
    => /\ out.hasTable
       /\ Len(out.table.rows) = Cardinality(NumericLines(store))
       /\ LET parsed == ReadCsv(store.lines, {"Date"}) IN
          \E pos \in [1..Len(out.table.rows) -> 1..Len(parsed.rows)] :
             /\ \A a, b \in DOMAIN pos : a < b => pos[a] < pos[b]
             /\ \A a \in DOMAIN pos :
                  /\ pos[a] + 1 \in NumericLines(store)
                  /\ \A j \in 1..Len(parsed.cols) :
                       parsed.cols[j] # "Amount" => out.table.rows[a][j] = parsed.rows[pos[a]][j]

\* C3: every record of the table load_data returns satisfies the canonical
\* schema: Date a parsed date, Type Income or Expense, Amount a number.
C3_LoadedSchema ==
    (Ended("View Summary") /\ out.hasTable)
    => \A i \in 1..Len(out.table.rows) :
         /\ HasCol(out.table.cols, "Date") /\ Cell(out.table, i, "Date").k = "date"
         /\ HasCol(out.table.cols, "Type")
         /\ Cell(out.table, i, "Type") \in {Str("Income"), Str("Expense")}
         /\ HasCol(out.table.cols, "Amount") /\ Cell(out.table, i, "Amount").k = "num"

AddedOne == out.mode = "Add Transaction" /\ out.submit

\* C4 as stated: over any run, the store before the run is a prefix of the
\* store after it, only a submitted Add Transaction run changes the store, by
\* exactly one line, and every other run leaves it as it was.
C4_AppendOnly ==
    (pc = "start" /\ out.mode # "none")
    => /\ IsPrefix(before.lines, store.lines)
       /\ AddedOne => Len(store.lines) = Len(before.lines) + 1
       /\ ~AddedOne => store = before

\* C4 as amended: the store before the run is a prefix of the store after it;
\* a run that starts with the file present changes it only when it is a
\* submitted Add Transaction run, by exactly one appended line; a run that
\* starts with the file absent creates it with the header row first (a
\* submitted Add Transaction run then appends its one line).
C4_AppendOnlyAfterInit ==
    (pc = "start" /\ out.mode # "none")
    => LET start == IF before.exists THEN before.lines ELSE <<CanonicalColumns>> IN
       /\ store.exists
       /\ IsPrefix(before.lines, store.lines)
       /\ IsPrefix(start, store.lines)
       /\ AddedOne => Len(store.lines) = Len(start) + 1
       /\ ~AddedOne => store.lines = start

C4_Witness ==
    /\ pc = "start"
    /\ out.mode \in {"View Summary", "Trend Analysis"}
    /\ out.pdf = "raised"
    /\ before.exists
    /\ Len(before.lines) >= 2
    /\ store = before

\* C5: the initialisation at the top of a run creates a missing store file
\* with the header row and no data rows, and leaves an existing file (empty
\* or populated) exactly as it is, run after run.
C5_InitializeIdempotent ==
    [][pc = "start" =>
         /\ ~store.exists => store' = [exists |-> TRUE, lines |-> <<CanonicalColumns>>]
         /\ store.exists => store' = store]_vars

C5_Witness ==
    /\ pc = "dispatch"
    /\ before.exists
    /\ Len(before.lines) >= 2
    /\ store = before

\* C6: the table analyze_uploaded_file produces has the five canonical
\* columns under their canonical names, with "Uncategorized" for an absent
\* category column and "" for an absent description column.
C6_CanonicalColumns ==
    (Ended("Trend Analysis") /\ out.hasTable)
    => LET up == LowerColumns([cols |-> out.upload.lines[1], rows |-> <<>>]).cols IN
       /\ \A j \in 1..5 : HasCol(out.table.cols, CanonicalColumns[j])
       /\ ~HasCol(up, "category") =>
            \A i \in 1..Len(out.table.rows) :
               Cell(out.table, i, "Category") = Str("Uncategorized")
       /\ ~HasCol(up, "description") =>
            \A i \in 1..Len(out.table.rows) : Cell(out.table, i, "Description") = Str("")

\* C7: in the table analyze_uploaded_file produces, Type is "Income" when
\* Amount >= 0 and "Expense" when Amount < 0, whatever type column the upload
\* had.
C7_TypeFromSign ==
    (Ended("Trend Analysis") /\ out.hasTable)
    => /\ HasCol(out.table.cols, "Type")
       /\ HasCol(out.table.cols, "Amount")
       /\ \A i \in 1..Len(out.table.rows) :
            /\ Cell(out.table, i, "Amount").k = "num"
            /\ Cell(out.table, i, "Amount").n >= 0 => Cell(out.table, i, "Type") = Str("Income")
            /\ Cell(out.table, i, "Amount").n < 0 => Cell(out.table, i, "Type") = Str("Expense")

C7_Witness ==
    /\ Ended("Trend Analysis")
    /\ out.hasTable
    /\ HasCol(out.table.cols, "type")
    /\ \E i \in 1..Len(out.table.rows) :
         /\ Cell(out.table, i, "type") = Str("Income")
         /\ Cell(out.table, i, "Amount").n < 0
         /\ Cell(out.table, i, "Type") = Str("Expense")

\* The upload is a CSV with a header that lacks a date or an amount column,
\* whatever the casing.
LacksRequired(u) ==
    /\ u.kind = "csv"
    /\ Len(u.lines) >= 1
    /\ \/ \A j \in 1..Len(u.lines[1]) : u.lines[1][j] \notin {"Date", "DATE", "date"}
       \/ \A j \in 1..Len(u.lines[1]) : u.lines[1][j] \notin {"Amount", "AMOUNT", "amount"}

\* C8: an upload lacking a date or an amount column ends in the schema error
\* and nothing else: no table, no step after the column check, no export, no
\* image file written.
C8_MissingColumnStops ==
    (Ended("Trend Analysis") /\ LacksRequired(out.upload))
    => /\ out.msgs = <<SchemaError>>
       /\ ~out.hasTable
       /\ out.steps = <<"read_csv", "lower", "check">>
       /\ out.pdf = "none"
       /\ out.wrote = {}

C8_Witness ==
    /\ Ended("Trend Analysis")
    /\ LacksRequired(out.upload)
    /\ \E j \in 1..Len(out.upload.lines[1]) : out.upload.lines[1][j] = "DATE"
    /\ Len(out.upload.lines) >= 2
    /\ out.msgs = <<SchemaError>>

C10_ImagesDeleted ==
    (pc = "start" /\ out.pdf # "none") => out.wrote \cap images = {}

====
